---------------------------- MODULE Spec2Model ----------------------------
(***************************************************************************)
(* A model of tiptap-extension-pagination: the paper geometry table, the   *)
(* page attribute resolver and mutator (src/src/utils/paper.ts) and the    *)
(* page node's HTML rules and clipboard serializer (src/src/Nodes/Page.ts).*)
(*                                                                         *)
(* A document is the sequence of its top-level nodes.  A position is the   *)
(* index of a top-level node (0 for the first); a position past the last   *)
(* node addresses no node, as tr.doc.nodeAt returns null there.            *)
(***************************************************************************)
EXTENDS Integers, Sequences, FiniteSets, TLC

VARIABLES
    state,      \* the document of the editor state (EditorState.doc)
    tr,         \* the document of the transaction the setters write to
    last,       \* the most recent setter call: arguments, return, effects
    rep,        \* whether the most recent setter call repeats the one before it
    expected,   \* per page and attribute: initial value or last successful set
    rPc,        \* the resolver's position: idle, entry, oob, done
    rAttr,      \* the attribute the resolver resolves
    rStart,     \* the page number given to the top-level resolution
    rPageNum,   \* the page number of the current getPageAttribute call
    rWarns,     \* out-of-range warnings emitted by the current resolution
    rResult,    \* the value the resolution returned
    pxPaperSize,  \* the paper size given to calculatePagePixelDimensions
    pxRatio,      \* the pixels per millimetre of the device
    pxDims,       \* what getPaperDimensions returned
    pxPixels,     \* what calculatePagePixelDimensions returned
    mgNode,       \* the pageMargins attribute of a page node
    mgAttr,       \* the pageMargins attribute of the page's HTML element
    mgParsed,     \* the outcome of the attribute's parseHTML
    cbFragment,   \* the fragment given to the clipboard serializer
    cbTarget,     \* the target the clipboard serializer returned
    htParent,     \* the parent of each element of an HTML tree (0: none)
    htTagged,     \* whether each element carries the data-page attribute
    htVisited,    \* the number of elements the parser has visited
    htPages       \* the elements the parser has made page nodes

editorVars == <<state, tr, last, rep, expected, rPc, rAttr, rStart, rPageNum, rWarns, rResult>>
paperVars == <<pxPaperSize, pxRatio, pxDims, pxPixels>>
marginVars == <<mgNode, mgAttr, mgParsed>>
clipboardVars == <<cbFragment, cbTarget>>
htmlVars == <<htParent, htTagged, htVisited, htPages>>

vars == <<editorVars, paperVars, marginVars, clipboardVars, htmlVars>>

---------------------------------------------------------------------------
(* Bounds of the model *)

MaxNodes == 2       \* top-level nodes in a document
MaxPageNum == 3     \* largest page number given to the resolver
MaxWarns == 3       \* cap on the warnings counted in one resolution

---------------------------------------------------------------------------
(* Values *)

\* JavaScript null / undefined as an attribute value
Null == "null"

PAGE_NODE_PAPER_SIZE_ATTR == "paperSize"
PAGE_NODE_PAPER_COLOUR_ATTR == "paperColour"

DEFAULT_PAPER_SIZE == "A4"
DEFAULT_PAPER_COLOUR == "#ffffff"

\* The own keys of the paperDimensions table, with their millimetre sizes
paperDimensions ==
    [ A4     |-> [kind |-> "dimensions", width |-> 210, height |-> 297],
      A3     |-> [kind |-> "dimensions", width |-> 297, height |-> 420],
      Letter |-> [kind |-> "dimensions", width |-> 216, height |-> 279] ]

\* The keys every object literal inherits from Object.prototype; the `in`
\* operator looks a key up along the prototype chain.
ObjectPrototypeKeys ==
    { "constructor", "toString", "valueOf", "hasOwnProperty", "isPrototypeOf",
      "propertyIsEnumerable", "toLocaleString", "__proto__" }

\* paperSize in paperDimensions
isValidPaperSize(paperSize) ==
    \/ paperSize \in DOMAIN paperDimensions
    \/ paperSize \in ObjectPrototypeKeys

\* paperDimensions[paperSize]: an own entry, an inherited member, or undefined
paperDimensionsAt(paperSize) ==
    IF paperSize \in DOMAIN paperDimensions THEN paperDimensions[paperSize]
    ELSE IF paperSize \in ObjectPrototypeKeys
         THEN [kind |-> "inherited", width |-> 0, height |-> 0]
         ELSE [kind |-> "undefined", width |-> 0, height |-> 0]

getPaperDimensions(paperSize) ==
    LET size == IF ~isValidPaperSize(paperSize) THEN DEFAULT_PAPER_SIZE ELSE paperSize
    IN  paperDimensionsAt(size)

\* The colour validator: hexadecimal colour strings are valid
ValidColours == { "#ffffff", "#000000" }
isValidColour(colour) == colour \in ValidColours

---------------------------------------------------------------------------
(* Documents *)

PageNode(size, colour) ==
    [type |-> "page", attrs |-> [paperSize |-> size, paperColour |-> colour]]

Paragraph == [type |-> "paragraph", attrs |-> [paperSize |-> Null, paperColour |-> Null]]

\* No node: what nodeAt returns for a position that addresses none
NoNode == [type |-> "none", attrs |-> [paperSize |-> Null, paperColour |-> Null]]

isPageNode(node) == node.type = "page"

\* tr.doc.nodeAt(pos)
nodeAt(doc, pos) == IF pos + 1 \in 1..Len(doc) THEN doc[pos + 1] ELSE NoNode

\* The page nodes of a document, in document order
PagesOf(doc) == SelectSeq(doc, isPageNode)

doesDocHavePageNodes(doc) == Len(PagesOf(doc)) > 0

getLastPageNum(doc) == Len(PagesOf(doc)) - 1

isPageNumInRange(doc, pageNum) == pageNum >= 0 /\ pageNum <= getLastPageNum(doc)

getPageNodeByPageNum(doc, pageNum) ==
    IF pageNum + 1 \in 1..Len(PagesOf(doc)) THEN PagesOf(doc)[pageNum + 1] ELSE NoNode

getPageNodePaperSize(pageNode) == pageNode.attrs[PAGE_NODE_PAPER_SIZE_ATTR]

getPageNodePaperColour(pageNode) == pageNode.attrs[PAGE_NODE_PAPER_COLOUR_ATTR]

\* Sets the attribute of the node at pagePos in the transaction; a position
\* that addresses no node leaves the transaction as it is.
setPageNodeAttribute(doc, pagePos, pageNode, attr, value) ==
    IF pagePos + 1 \in 1..Len(doc)
    THEN [doc EXCEPT ![pagePos + 1].attrs[attr] = value]
    ELSE doc

---------------------------------------------------------------------------
(* The page attribute mutator *)

\* What a setter call did: its return value, the transaction's document
\* afterwards, how often it invoked dispatch, and the diagnostic it logged.
Outcome(ret, doc, dispatched, diag) ==
    [ret |-> ret, tr |-> doc, dispatched |-> dispatched, diag |-> diag]

\* setPageNodePosPaperSize without its already-set check
setPageNodePosPaperSize_NoIdempotence(doc, dispatch, pagePos, pageNode, paperSize) ==
    IF ~dispatch THEN Outcome(FALSE, doc, 0, "none")
    ELSE IF ~isValidPaperSize(paperSize) THEN Outcome(FALSE, doc, 0, "warn")
    ELSE IF ~isPageNode(pageNode) THEN Outcome(FALSE, doc, 0, "error")
    ELSE Outcome(TRUE,
                 setPageNodeAttribute(doc, pagePos, pageNode, PAGE_NODE_PAPER_SIZE_ATTR, paperSize),
                 1, "none")

setPageNodePosPaperSize(doc, dispatch, pagePos, pageNode, paperSize) ==
    IF ~dispatch THEN Outcome(FALSE, doc, 0, "none")
    ELSE IF ~isValidPaperSize(paperSize) THEN Outcome(FALSE, doc, 0, "warn")
    ELSE IF ~isPageNode(pageNode) THEN Outcome(FALSE, doc, 0, "error")
    ELSE IF getPageNodePaperSize(pageNode) = paperSize THEN Outcome(FALSE, doc, 0, "none")
    ELSE Outcome(TRUE,
                 setPageNodeAttribute(doc, pagePos, pageNode, PAGE_NODE_PAPER_SIZE_ATTR, paperSize),
                 1, "none")

setPagePaperSize(doc, dispatch, pagePos, paperSize) ==
    LET pageNode == nodeAt(doc, pagePos)
    IN  IF pageNode = NoNode THEN Outcome(FALSE, doc, 0, "error")
        ELSE setPageNodePosPaperSize(doc, dispatch, pagePos, pageNode, paperSize)

\* setPageNodePosPaperColour writing the paper size attribute
setPageNodePosPaperColour_SizeAttr(doc, dispatch, pagePos, pageNode, paperColour) ==
    IF ~dispatch THEN Outcome(FALSE, doc, 0, "none")
    ELSE IF ~isValidColour(paperColour) THEN Outcome(FALSE, doc, 0, "warn")
    ELSE IF ~isPageNode(pageNode) THEN Outcome(FALSE, doc, 0, "error")
    ELSE IF getPageNodePaperColour(pageNode) = paperColour THEN Outcome(FALSE, doc, 0, "none")
    ELSE Outcome(TRUE,
                 setPageNodeAttribute(doc, pagePos, pageNode, PAGE_NODE_PAPER_SIZE_ATTR, paperColour),
                 1, "none")

setPageNodePosPaperColour(doc, dispatch, pagePos, pageNode, paperColour) ==
    IF ~dispatch THEN Outcome(FALSE, doc, 0, "none")
    ELSE IF ~isValidColour(paperColour) THEN Outcome(FALSE, doc, 0, "warn")
    ELSE IF ~isPageNode(pageNode) THEN Outcome(FALSE, doc, 0, "error")
    ELSE IF getPageNodePaperColour(pageNode) = paperColour THEN Outcome(FALSE, doc, 0, "none")
    ELSE Outcome(TRUE,
                 setPageNodeAttribute(doc, pagePos, pageNode, PAGE_NODE_PAPER_COLOUR_ATTR, paperColour),
                 1, "none")

---------------------------------------------------------------------------
(* Inputs of the setter calls *)

PaperSizeArgs == { "Letter", "toString", "B9" }
PaperColourArgs == { "#000000", "notacolour" }
\* The positions of the transaction's nodes and the position past the last
Positions == 0..Len(tr)

\* A page node that is not part of the document
DetachedPage == PageNode(Null, Null)

\* The node arguments a caller passes with a position: the node now at the
\* position, the node object passed to the call before at the same position
\* (node objects are immutable, so it still reads as it did then), and, for
\* a position that addresses no node, a page node from elsewhere.
NodeArgs(pagePos) ==
    ( { nodeAt(tr, pagePos) }
      \cup (IF last.op # "none" /\ last.pagePos = pagePos THEN { last.pageNode } ELSE {})
      \cup (IF nodeAt(tr, pagePos) = NoNode THEN { DetachedPage } ELSE {}) ) \ { NoNode }

NoCall ==
    [op |-> "none", attr |-> Null, dispatch |-> FALSE, pagePos |-> 0, pageNode |-> NoNode,
     value |-> Null, ret |-> FALSE, trBefore |-> <<>>, dispatched |-> 0, diag |-> "none"]

NoRep == [same |-> FALSE, fresh |-> FALSE, first |-> FALSE]

\* The number (from 1) of the page at a position that holds a page node
PageIndexOf(doc, pagePos) == Len(PagesOf(SubSeq(doc, 1, pagePos + 1)))

\* The value the resolver is to return for every page of a document
ResolvedAttrs(doc) ==
    [p \in 1..Len(PagesOf(doc)) |->
        [paperSize |-> IF getPageNodePaperSize(PagesOf(doc)[p]) = Null
                       THEN DEFAULT_PAPER_SIZE
                       ELSE getPageNodePaperSize(PagesOf(doc)[p]),
         paperColour |-> IF getPageNodePaperColour(PagesOf(doc)[p]) = Null
                         THEN DEFAULT_PAPER_COLOUR
                         ELSE getPageNodePaperColour(PagesOf(doc)[p])]]

\* The bookkeeping of one setter call with outcome r
Called(op, attr, dispatch, pagePos, pageNode, value, r) ==
    /\ rPc \in {"idle", "done"}
    /\ tr' = r.tr
    /\ state' = IF r.dispatched > 0 THEN r.tr ELSE state
    /\ last' = [op |-> op, attr |-> attr, dispatch |-> dispatch, pagePos |-> pagePos,
                pageNode |-> pageNode, value |-> value, ret |-> r.ret, trBefore |-> tr,
                dispatched |-> r.dispatched, diag |-> r.diag]
    /\ rep' = IF /\ last.op = op /\ last.dispatch = dispatch
                 /\ last.pagePos = pagePos /\ last.value = value
              THEN [same  |-> last.pageNode = pageNode,
                    fresh |-> /\ last.pageNode = nodeAt(last.trBefore, pagePos)
                              /\ pageNode = nodeAt(tr, pagePos),
                    first |-> last.ret]
              ELSE NoRep
    /\ expected' = IF r.ret /\ isPageNode(nodeAt(tr, pagePos))
                   THEN [expected EXCEPT ![PageIndexOf(tr, pagePos)][attr] = value]
                   ELSE expected
    /\ rPc' = "idle" /\ rAttr' = Null /\ rStart' = 0 /\ rPageNum' = 0
    /\ rWarns' = 0 /\ rResult' = Null
    /\ UNCHANGED <<paperVars, marginVars, clipboardVars, htmlVars>>

SetPagePaperSize ==
    \E pagePos \in Positions, paperSize \in PaperSizeArgs, dispatch \in BOOLEAN :
        Called("setPagePaperSize", PAGE_NODE_PAPER_SIZE_ATTR, dispatch, pagePos,
               nodeAt(tr, pagePos), paperSize,
               setPagePaperSize(tr, dispatch, pagePos, paperSize))

SetPageNodePosPaperSize ==
    \E pagePos \in Positions, paperSize \in PaperSizeArgs, dispatch \in BOOLEAN :
        \E pageNode \in NodeArgs(pagePos) :
            Called("setPageNodePosPaperSize", PAGE_NODE_PAPER_SIZE_ATTR, dispatch, pagePos,
                   pageNode, paperSize,
                   setPageNodePosPaperSize(tr, dispatch, pagePos, pageNode, paperSize))

SetPageNodePosPaperColour ==
    \E pagePos \in Positions, paperColour \in PaperColourArgs, dispatch \in BOOLEAN :
        \E pageNode \in NodeArgs(pagePos) :
            Called("setPageNodePosPaperColour", PAGE_NODE_PAPER_COLOUR_ATTR, dispatch, pagePos,
                   pageNode, paperColour,
                   setPageNodePosPaperColour(tr, dispatch, pagePos, pageNode, paperColour))

---------------------------------------------------------------------------
(* The page attribute resolver, one step per call *)

PageNums == (0 - 1)..MaxPageNum

\* getPageNodeAttribute(node) ?? getDefault()
Coalesce(value, default) == IF value = Null THEN default ELSE value

getDefault(attr) ==
    IF attr = PAGE_NODE_PAPER_SIZE_ATTR THEN DEFAULT_PAPER_SIZE ELSE DEFAULT_PAPER_COLOUR

getNodeAttribute(attr, pageNode) ==
    IF attr = PAGE_NODE_PAPER_SIZE_ATTR
    THEN getPageNodePaperSize(pageNode)
    ELSE getPageNodePaperColour(pageNode)

\* A top-level resolution begins: getPageAttribute is entered with pageNum
Resolve(attr, pageNum) ==
    /\ rPc \in {"idle", "done"}
    /\ rPc' = "entry" /\ rAttr' = attr /\ rStart' = pageNum /\ rPageNum' = pageNum
    /\ rWarns' = 0 /\ rResult' = Null
    /\ last' = NoCall /\ rep' = NoRep
    /\ UNCHANGED <<state, tr, expected>>
    /\ UNCHANGED <<paperVars, marginVars, clipboardVars, htmlVars>>

getPageNumPaperSizeFromState ==
    \E pageNum \in PageNums : Resolve(PAGE_NODE_PAPER_SIZE_ATTR, pageNum)

getPageNumPaperColourFromState ==
    \E pageNum \in PageNums : Resolve(PAGE_NODE_PAPER_COLOUR_ATTR, pageNum)

\* The body of getPageAttribute up to its return or its out-of-range call
getPageAttribute ==
    /\ rPc = "entry"
    /\ IF ~doesDocHavePageNodes(state)
       THEN rPc' = "done" /\ rResult' = getDefault(rAttr)
       ELSE IF ~isPageNumInRange(state, rPageNum)
       THEN rPc' = "oob" /\ rResult' = rResult
       ELSE IF getPageNodeByPageNum(state, rPageNum) = NoNode
       THEN rPc' = "done" /\ rResult' = getDefault(rAttr)
       ELSE /\ rPc' = "done"
            /\ rResult' = Coalesce(getNodeAttribute(rAttr, getPageNodeByPageNum(state, rPageNum)),
                                   getDefault(rAttr))
    /\ UNCHANGED <<state, tr, last, rep, expected, rAttr, rStart, rPageNum, rWarns>>
    /\ UNCHANGED <<paperVars, marginVars, clipboardVars, htmlVars>>

\* handleOutOfRangePageNum falling back to the first page
handleOutOfRangePageNum_FirstPage ==
    /\ rPc = "oob"
    /\ rWarns < MaxWarns
    /\ rWarns' = rWarns + 1
    /\ rPageNum' = 0
    /\ rPc' = "entry"
    /\ UNCHANGED <<state, tr, last, rep, expected, rAttr, rStart, rResult>>
    /\ UNCHANGED <<paperVars, marginVars, clipboardVars, htmlVars>>

\* handleOutOfRangePageNum retrying with the number of pages
handleOutOfRangePageNum_PageCount ==
    /\ rPc = "oob"
    /\ rWarns < MaxWarns
    /\ rWarns' = rWarns + 1
    /\ rPageNum' = getLastPageNum(state) + 1
    /\ rPc' = "entry"
    /\ UNCHANGED <<state, tr, last, rep, expected, rAttr, rStart, rResult>>
    /\ UNCHANGED <<paperVars, marginVars, clipboardVars, htmlVars>>

\* Warns, then calls getPageAttribute again with the last page number
handleOutOfRangePageNum ==
    /\ rPc = "oob"
    /\ rWarns < MaxWarns
    /\ rWarns' = rWarns + 1
    /\ rPageNum' = getLastPageNum(state)
    /\ rPc' = "entry"
    /\ UNCHANGED <<state, tr, last, rep, expected, rAttr, rStart, rResult>>
    /\ UNCHANGED <<paperVars, marginVars, clipboardVars, htmlVars>>

---------------------------------------------------------------------------
(* The editor: documents, setter calls and resolutions *)

InitNodes == { PageNode(Null, Null), PageNode("Letter", "#000000"), Paragraph }

InitDocs == UNION { [1..n -> InitNodes] : n \in 0..MaxNodes }

\* The editor before any call
EditorIdle ==
    /\ state = <<>> /\ tr = <<>>
    /\ last = NoCall
    /\ rep = NoRep
    /\ expected = <<>>
    /\ rPc = "idle" /\ rAttr = Null /\ rStart = 0 /\ rPageNum = 0
    /\ rWarns = 0 /\ rResult = Null

\* Nothing returned yet
NoDims == [kind |-> "none", width |-> 0, height |-> 0]
NoPixels == [kind |-> "none", pageHeight |-> 0, pageWidth |-> 0]

PaperIdle == pxPaperSize = Null /\ pxRatio = 0 /\ pxDims = NoDims /\ pxPixels = NoPixels

\* Margins of a node that has none, an element without the attribute, and
\* the outcome of a parse that has not run
NoMargins == [top |-> 0, right |-> 0, bottom |-> 0, left |-> 0]
AbsentAttr == [present |-> FALSE, text |-> <<>>]
NotParsed == [status |-> "none", kind |-> "none", members |-> NoMargins, number |-> 0]

MarginIdle == mgNode = NoMargins /\ mgAttr = AbsentAttr /\ mgParsed = NotParsed

\* No target returned yet
NoTarget == [returned |-> FALSE, nodes |-> <<>>]

ClipboardIdle == cbFragment = <<>> /\ cbTarget = NoTarget

HtmlIdle == htParent = <<>> /\ htTagged = <<>> /\ htVisited = 0 /\ htPages = {}

Init ==
    /\ state \in InitDocs
    /\ tr = state
    /\ last = NoCall
    /\ rep = NoRep
    /\ expected = ResolvedAttrs(state)
    /\ rPc = "idle" /\ rAttr = Null /\ rStart = 0 /\ rPageNum = 0
    /\ rWarns = 0 /\ rResult = Null
    /\ PaperIdle /\ MarginIdle /\ ClipboardIdle /\ HtmlIdle

Next ==
    \/ SetPagePaperSize
    \/ SetPageNodePosPaperSize
    \/ SetPageNodePosPaperColour
    \/ getPageNumPaperSizeFromState
    \/ getPageNumPaperColourFromState
    \/ getPageAttribute
    \/ handleOutOfRangePageNum

Spec == Init /\ [][Next]_vars

---------------------------------------------------------------------------
(* Properties of the mutator *)

KnownPaperSizes == DOMAIN paperDimensions

\* Whether the most recent setter call was given a value that is no known
\* paper size / no valid colour
InvalidValue ==
    IF last.attr = PAGE_NODE_PAPER_SIZE_ATTR
    THEN last.value \notin KnownPaperSizes
    ELSE ~isValidColour(last.value)

Applied ==
    /\ last.ret
    /\ nodeAt(tr, last.pagePos) # NoNode
    /\ nodeAt(tr, last.pagePos).attrs[last.attr] = last.value
    /\ last.dispatched = 1
    /\ state = tr

Rejected ==
    /\ ~last.ret
    /\ tr = last.trBefore
    /\ last.dispatched = 0

\* C1: every setter call either returns true, having set the attribute of
\* the node at pagePos in the transaction to the requested value and having
\* invoked dispatch exactly once with that transaction, or returns false,
\* leaving the transaction unchanged and dispatch uninvoked; without a
\* dispatch function it is always the latter.
C1_AllOrNothing ==
    last.op # "none" =>
        /\ Applied \/ Rejected
        /\ ~last.dispatch => Rejected

\* C2 as claimed, for a position that holds a page node: a setter call with
\* the same arguments as the call before it (the same node argument
\* included) returns false, writes nothing and does not dispatch; and a call
\* with a dispatch function, a valid value and a page node whose value
\* differs dispatches.
C2_IdempotentSameArguments ==
    /\ (rep.same /\ ~InvalidValue /\ isPageNode(nodeAt(last.trBefore, last.pagePos))) => Rejected
    /\ ( /\ last.op # "none" /\ last.dispatch /\ ~InvalidValue
         /\ isPageNode(last.pageNode)
         /\ last.pageNode.attrs[last.attr] # last.value )
       => last.ret /\ last.dispatched = 1

\* C2 as amended: when both calls are given the node that is at pagePos in
\* the transaction at the time of the call, the second call with the same
\* transaction, dispatch, position and valid value returns false,
\* writes nothing and does not dispatch; and a call with a dispatch
\* function, a valid value and a page node whose value differs dispatches.
C2_IdempotentCurrentNode ==
    /\ (rep.fresh /\ ~InvalidValue) => Rejected
    /\ ( /\ last.op # "none" /\ last.dispatch /\ ~InvalidValue
         /\ isPageNode(last.pageNode)
         /\ last.pageNode.attrs[last.attr] # last.value )
       => last.ret /\ last.dispatched = 1

\* The second of two calls on the node at the position, after a first call
\* that dispatched, is rejected
C2_Witness ==
    /\ rep.fresh /\ rep.first
    /\ last.op = "setPageNodePosPaperSize"
    /\ last.value = "Letter"
    /\ last.dispatch
    /\ ~last.ret

\* C3: a setter call with an invalid paper size or an invalid colour
\* returns false, leaves the transaction unchanged and does not dispatch.
C3_InvalidValueRejected ==
    (last.op # "none" /\ InvalidValue) => Rejected

---------------------------------------------------------------------------
(* Properties of the resolver *)

NumPages == Len(PagesOf(state))

\* The value of an attribute of the last page, or its default when unset
LastPageValue(attr) ==
    Coalesce(getNodeAttribute(attr, PagesOf(state)[NumPages]), getDefault(attr))

C9_AtMostOneRetry ==
    /\ rWarns <= 1
    /\ rPc = "oob" => rWarns = 0

\* A resolution for a negative page number that ended after one retry
C9_Witness ==
    /\ rPc = "done" /\ rStart < 0 /\ rWarns = 1 /\ NumPages >= 1

\* C10: a resolution for a page returns the value of the most recent
\* successful set of that attribute on that page, or the page's initial
\* value (the default when unset); a successful set changes the resolved
\* value of no other page and of no other attribute.
C10_NoStaleReads ==
    /\ (rPc = "done" /\ rStart \in 0..(NumPages - 1))
       => rResult = expected[rStart + 1][rAttr]
    /\ (last.op # "none" /\ last.ret) =>
         \A q \in 1..NumPages : \A a \in {PAGE_NODE_PAPER_SIZE_ATTR, PAGE_NODE_PAPER_COLOUR_ATTR} :
            ~( /\ isPageNode(nodeAt(last.trBefore, last.pagePos))
               /\ q = PageIndexOf(last.trBefore, last.pagePos)
               /\ a = last.attr )
            => ResolvedAttrs(state)[q][a] = ResolvedAttrs(last.trBefore)[q][a]

\* A resolution that returns a paper size set on a page whose colour was
\* never set, in a document whose other page has another paper size
C10_Witness ==
    /\ rPc = "done" /\ NumPages = 2 /\ rStart = 0
    /\ rAttr = PAGE_NODE_PAPER_SIZE_ATTR
    /\ rResult = "Letter"
    /\ getPageNodePaperColour(PagesOf(state)[1]) = Null
    /\ getPageNodePaperSize(PagesOf(state)[2]) = "toString"

---------------------------------------------------------------------------
(* The paper geometry table *)

MaxRatio == 4       \* largest pixels-per-millimetre ratio of a device

PaperSizeInputs == KnownPaperSizes \cup ObjectPrototypeKeys \cup { "B9", "a4", "" }

\* Millimetres to pixels at the device's ratio; no number gives NaN
mmToPixels(mm, ratio) == mm * ratio

calculatePagePixelDimensions(paperSize, ratio) ==
    LET dims == getPaperDimensions(paperSize)
    IN  IF dims.kind = "dimensions"
        THEN [kind |-> "pixels", pageHeight |-> mmToPixels(dims.height, ratio),
              pageWidth |-> mmToPixels(dims.width, ratio)]
        ELSE [kind |-> "NaN", pageHeight |-> 0, pageWidth |-> 0]

InitPaper ==
    /\ pxPaperSize \in PaperSizeInputs
    /\ pxRatio \in 1..MaxRatio
    /\ pxDims = NoDims /\ pxPixels = NoPixels
    /\ EditorIdle /\ MarginIdle /\ ClipboardIdle /\ HtmlIdle

GetPaperDimensions ==
    /\ pxDims = NoDims
    /\ pxDims' = getPaperDimensions(pxPaperSize)
    /\ UNCHANGED <<pxPaperSize, pxRatio, pxPixels>>
    /\ UNCHANGED <<editorVars, marginVars, clipboardVars, htmlVars>>

CalculatePagePixelDimensions ==
    /\ pxPixels = NoPixels
    /\ pxPixels' = calculatePagePixelDimensions(pxPaperSize, pxRatio)
    /\ UNCHANGED <<pxPaperSize, pxRatio, pxDims>>
    /\ UNCHANGED <<editorVars, marginVars, clipboardVars, htmlVars>>

NextPaper ==
    \/ GetPaperDimensions
    \/ CalculatePagePixelDimensions

SpecPaper == InitPaper /\ [][NextPaper]_vars

\* C8: getPaperDimensions returns the table's entry for a defined paper
\* size; for every other input isValidPaperSize is false and
\* getPaperDimensions returns the default paper size's dimensions; it never
\* returns undefined or a value that is no dimensions.
C8_DimensionsTotalWithDefault ==
    pxDims # NoDims =>
        /\ pxDims.kind = "dimensions"
        /\ IF pxPaperSize \in KnownPaperSizes
           THEN pxDims = paperDimensions[pxPaperSize]
           ELSE /\ ~isValidPaperSize(pxPaperSize)
                /\ pxDims = paperDimensions[DEFAULT_PAPER_SIZE]

---------------------------------------------------------------------------
(* The pageMargins attribute of the page node: renderHTML and parseHTML *)

MaxMargin == 2      \* largest margin of a side

DEFAULT_MARGIN_CONFIG == [top |-> 1, right |-> 1, bottom |-> 1, left |-> 1]

Margins == [top : 0..MaxMargin, right : 0..MaxMargin, bottom : 0..MaxMargin, left : 0..MaxMargin]

\* JSON text is a sequence of tokens; a number is written in digits
DigitTokens == <<"0", "1", "2", "3", "4", "5", "6", "7", "8", "9">>
Digits == { DigitTokens[i] : i \in DOMAIN DigitTokens }
NumberToken(n) == DigitTokens[n + 1]
NumberOf(token) == CHOOSE n \in 0..9 : DigitTokens[n + 1] = token
KeyTokens == { "top", "right", "bottom", "left" }

\* JSON.stringify of a margin object: its keys in insertion order
JSONstringify(m) ==
    << "{", "top", ":", NumberToken(m.top), ",", "right", ":", NumberToken(m.right), ",",
       "bottom", ":", NumberToken(m.bottom), ",", "left", ":", NumberToken(m.left), "}" >>

Throws == [status |-> "throws", kind |-> "none", members |-> NoMargins, number |-> 0]
ReturnsObject(members) ==
    [status |-> "returned", kind |-> "object", members |-> members, number |-> 0]
ReturnsNumber(n) == [status |-> "returned", kind |-> "number", members |-> NoMargins, number |-> n]
ReturnsNull == [status |-> "returned", kind |-> "null", members |-> NoMargins, number |-> 0]

\* The members of a JSON object: key : number, separated by commas
RECURSIVE ParseMembers(_, _)
ParseMembers(tokens, acc) ==
    IF Len(tokens) >= 3 /\ tokens[1] \in KeyTokens /\ tokens[2] = ":" /\ tokens[3] \in Digits
    THEN LET added == [k \in (DOMAIN acc) \cup {tokens[1]} |->
                          IF k = tokens[1] THEN NumberOf(tokens[3]) ELSE acc[k]]
         IN  IF Len(tokens) = 3 THEN ReturnsObject(added)
             ELSE IF tokens[4] = "," /\ Len(tokens) > 4
             THEN ParseMembers(SubSeq(tokens, 5, Len(tokens)), added)
             ELSE Throws
    ELSE Throws

\* JSON.parse: a number, null or an object of numbers; a SyntaxError otherwise
JSONparse(tokens) ==
    IF Len(tokens) = 0 THEN Throws
    ELSE IF Len(tokens) = 1
    THEN IF tokens[1] \in Digits THEN ReturnsNumber(NumberOf(tokens[1]))
         ELSE IF tokens[1] = "null" THEN ReturnsNull
         ELSE Throws
    ELSE IF tokens[1] = "{" /\ tokens[Len(tokens)] = "}"
    THEN IF Len(tokens) = 2 THEN ReturnsObject([k \in {} |-> 0])
         ELSE ParseMembers(SubSeq(tokens, 2, Len(tokens) - 1), [k \in {} |-> 0])
    ELSE Throws

\* pageMargins.parseHTML: margins ? JSON.parse(margins) : DEFAULT_MARGIN_CONFIG
pageMarginsParseHTML(attr) ==
    IF attr.present /\ attr.text # <<>>
    THEN JSONparse(attr.text)
    ELSE ReturnsObject(DEFAULT_MARGIN_CONFIG)

\* pageMargins.renderHTML: the attribute holds JSON.stringify(attributes.pageMargins)
pageMarginsRenderHTML(margins) == [present |-> TRUE, text |-> JSONstringify(margins)]

\* Attribute values that no renderHTML wrote: absent, empty, cut short,
\* not JSON at all, and JSON that is no object
RawAttrs ==
    { AbsentAttr,
      [present |-> TRUE, text |-> <<>>],
      [present |-> TRUE, text |-> SubSeq(JSONstringify(DEFAULT_MARGIN_CONFIG), 1, 8)],
      [present |-> TRUE, text |-> <<"25mm">>],
      [present |-> TRUE, text |-> <<"{", "top", "}">>],
      [present |-> TRUE, text |-> <<"null">>] }

InitMargins ==
    /\ mgNode \in Margins
    /\ mgAttr \in RawAttrs
    /\ mgParsed = NotParsed
    /\ EditorIdle /\ PaperIdle /\ ClipboardIdle /\ HtmlIdle

RenderHTML ==
    /\ mgParsed = NotParsed
    /\ mgAttr' = pageMarginsRenderHTML(mgNode)
    /\ UNCHANGED <<mgNode, mgParsed>>
    /\ UNCHANGED <<editorVars, paperVars, clipboardVars, htmlVars>>

ParseHTML ==
    /\ mgParsed = NotParsed
    /\ mgParsed' = pageMarginsParseHTML(mgAttr)
    /\ UNCHANGED <<mgNode, mgAttr>>
    /\ UNCHANGED <<editorVars, paperVars, clipboardVars, htmlVars>>

NextMargins ==
    \/ RenderHTML
    \/ ParseHTML

SpecMargins == InitMargins /\ [][NextMargins]_vars

\* C6: parsing the pageMargins attribute never raises and returns a margin
\* configuration: the default one for an absent, empty or malformed value,
\* and x for the serialization of a margin object x.
C6_MarginParseNeverFails ==
    mgParsed # NotParsed =>
        /\ mgParsed.status = "returned"
        /\ mgParsed.kind = "object"
        /\ (~mgAttr.present \/ mgAttr.text = <<>> \/ JSONparse(mgAttr.text).status = "throws")
           => mgParsed.members = DEFAULT_MARGIN_CONFIG
        /\ \A x \in Margins :
              mgAttr.text = JSONstringify(x) => mgParsed.members = x

---------------------------------------------------------------------------
(* The clipboard serializer of the page node *)

MaxFragment == 2    \* top-level nodes of a fragment
MaxChildren == 2    \* children of a page node

BlockNames == { "A", "B", "C" }

Block(name) == [type |-> "paragraph", name |-> name, content |-> <<>>]

PageOf(children) == [type |-> "page", name |-> "page", content |-> children]

Blocks == { Block(name) : name \in BlockNames }

FragmentNodes ==
    Blocks \cup { PageOf(children) : children \in UNION { [1..n -> Blocks] : n \in 0..MaxChildren } }

Fragments == UNION { [1..n -> FragmentNodes] : n \in 0..MaxFragment }

\* DOMSerializer.serializeNode: the element of a node, the page's wrapper
\* element for a page node
RECURSIVE serializeNode(_)
serializeNode(node) ==
    [ tag |-> IF isPageNode(node) THEN "div[data-page]" ELSE "p",
      text |-> node.name,
      children |-> [i \in 1..Len(node.content) |-> serializeNode(node.content[i])] ]

\* DOMSerializer.serializeFragment: appends the element of every node of
\* the fragment to the target
serializeFragment(fragment, target) ==
    target \o [i \in 1..Len(fragment) |-> serializeNode(fragment[i])]

\* paginationClipboardSerializer.serializeFragment: the target after the
\* first n nodes of the fragment.  The element that serializeNode returns
\* for a node that is no page node is not added to the target.
RECURSIVE paginationSerializeFragment(_, _, _)
paginationSerializeFragment(fragment, n, target) ==
    IF n = 0 THEN target
    ELSE LET before == paginationSerializeFragment(fragment, n - 1, target)
             node == fragment[n]
         IN  IF isPageNode(node)
             THEN serializeFragment(node.content, before)
             ELSE before

InitClipboard ==
    /\ cbFragment \in Fragments
    /\ cbTarget = NoTarget
    /\ EditorIdle /\ PaperIdle /\ MarginIdle /\ HtmlIdle

SerializeFragment ==
    /\ ~cbTarget.returned
    /\ cbTarget' = [returned |-> TRUE,
                    nodes |-> paginationSerializeFragment(cbFragment, Len(cbFragment), <<>>)]
    /\ UNCHANGED cbFragment
    /\ UNCHANGED <<editorVars, paperVars, marginVars, htmlVars>>

NextClipboard == SerializeFragment

SpecClipboard == InitClipboard /\ [][NextClipboard]_vars

\* The fragment flattened: the elements of the children of every page
\* node, and the element of every other node, in fragment order
RECURSIVE Flattened(_)
Flattened(fragment) ==
    IF fragment = <<>> THEN <<>>
    ELSE ( IF isPageNode(Head(fragment))
           THEN serializeFragment(Head(fragment).content, <<>>)
           ELSE <<serializeNode(Head(fragment))>> ) \o Flattened(Tail(fragment))

\* C5: the target the clipboard serializer returns holds, in fragment
\* order, the serialized children of every top-level page node and the
\* serialization of every other top-level node, and no page wrapper.
C5_ClipboardFlattens ==
    cbTarget.returned =>
        /\ cbTarget.nodes = Flattened(cbFragment)
        /\ \A i \in 1..Len(cbTarget.nodes) : cbTarget.nodes[i].tag # "div[data-page]"

---------------------------------------------------------------------------
(* The page node's parseHTML rule over an HTML element tree *)

MaxElements == 3    \* elements of an HTML tree

\* Trees of n elements in document order: an element's parent precedes it,
\* and 0 stands for no parent element
HtmlTrees(n) == { p \in [1..n -> 0..(n - 1)] : \A i \in 1..n : p[i] < i }

\* parent.hasAttribute(dataPageAttribute) for the parent element, if any
parentHasDataPage(parent, tagged, element) ==
    parent[element] # 0 /\ tagged[parent[element]]

\* The rule's tag div[data-page] matches and its getAttrs does not return false
parseHTMLMatches(parent, tagged, element) ==
    /\ tagged[element]
    /\ ~parentHasDataPage(parent, tagged, element)

InitHtml ==
    /\ \E n \in 1..MaxElements :
          /\ htParent \in HtmlTrees(n)
          /\ htTagged \in [1..n -> BOOLEAN]
    /\ htVisited = 0
    /\ htPages = {}
    /\ EditorIdle /\ PaperIdle /\ MarginIdle /\ ClipboardIdle

\* The parser reaches the next element and applies the page node's rule;
\* an element the rule does not match is parsed as ordinary content. Either
\* way the element's children are parsed inside it.
ParseElement ==
    /\ htVisited < Len(htParent)
    /\ htVisited' = htVisited + 1
    /\ htPages' = IF parseHTMLMatches(htParent, htTagged, htVisited + 1)
                  THEN htPages \cup {htVisited + 1}
                  ELSE htPages
    /\ UNCHANGED <<htParent, htTagged>>
    /\ UNCHANGED <<editorVars, paperVars, marginVars, clipboardVars>>

NextHtml == ParseElement

SpecHtml == InitHtml /\ [][NextHtml]_vars

RECURSIVE IsInside(_, _)
\* Whether element i lies inside element j
IsInside(i, j) ==
    /\ htParent[i] # 0
    /\ (htParent[i] = j \/ IsInside(htParent[i], j))

\* C7: an element becomes a page node only if it carries the page marker
\* and its parent element does not, so that no page node of the parsed
\* document is contained inside another page node.
C7_PageNodesNeverNest ==
    /\ \A i \in htPages : htTagged[i] /\ ~parentHasDataPage(htParent, htTagged, i)
    /\ \A i \in htPages : \A j \in htPages : ~IsInside(i, j)

=============================================================================
